---- MODULE Spec2Model ----
(***************************************************************************)
(* Model of data/fetch_stock_data.py: fetch_and_save_stock_data(), the     *)
(* sequential loop that requests one daily time series per ticker of       *)
(* SYMBOLS from Alpha Vantage and saves it as <OUTPUT_DIR>/<symbol>.json.  *)
(*                                                                         *)
(* The environment (file system, HTTP server) is nondeterministic: whether *)
(* the output directory exists, which files an earlier run left, what each *)
(* request returns and whether each write succeeds.                        *)
(***************************************************************************)
EXTENDS Integers, Sequences, FiniteSets, TLC

\* ------------------------------------------------------------------ bounds
\* Longest time series (number of daily rows) a response carries.
MaxRows == 1

\* --------------------------------------------------------------- constants
\* The registry, in insertion order (a dict keeps it): the ticker codes.
SYMBOLS == <<"SPY", "QQQ", "EXS1.DE", "ASHR", "EWJ">>

OUTPUT_DIR == "data/stock"

time_series_key == "Time Series (Daily)"

total_symbols == Len(SYMBOLS)

\* ------------------------------------------------------------ JSON values
\* A dict is a function from its keys to values; EmptyDict has no key.
EmptyDict == [k \in {} |-> <<>>]

Field(key, opt) == IF Len(opt) = 0 THEN EmptyDict ELSE (key :> opt[1])

\* A time series: rows <<date, close>> in the order the API lists them.
TimeSeries(n) == [i \in 1..n |-> <<"2025-04-0" \o ToString(i), "100.0">>]

TimeSeriesValues == {TimeSeries(n) : n \in 0..MaxRows}

\* Texts are sequences of phrases; "API call frequency" in text is the
\* substring test of line 74.
NoteValues ==
    { <<"Thank you for using Alpha Vantage! Our standard ", "API call frequency", " is 5 calls per minute.">>,
      <<"Please consider a premium plan.">> }

Mentions(phrase, text) == \E i \in DOMAIN text : text[i] = phrase

Option(S) == {<<>>} \cup {<<v>> : v \in S}

\* The JSON objects the API can answer with: any combination of the four
\* keys the script looks at.
Dicts ==
    { Field("Error Message", e) @@ Field("Note", n)
        @@ Field("Information", i) @@ Field(time_series_key, t) :
        e \in Option({<<"Invalid API call.">>}),
        n \in Option(NoteValues),
        i \in Option({<<"Premium endpoint.">>}),
        t \in Option(TimeSeriesValues) }

\* What one requests.get / raise_for_status / response.json() can yield.
\*   transport_error  requests.get raises (a RequestException)
\*   http_error       raise_for_status raises HTTPError (non-2xx)
\*   not_json         response.json() raises JSONDecodeError
\*   json_null        the body is the JSON value null (data is None)
\*   json_text        the body is a JSON string naming none of the keys
\*   json             the body is a JSON object, data is a dict
Responses ==
    { [kind |-> k, data |-> EmptyDict] :
        k \in {"transport_error", "http_error", "not_json", "json_null", "json_text"} }
    \cup { [kind |-> "json", data |-> d] : d \in Dicts }

NoResponse == [kind |-> "none", data |-> EmptyDict]

\* json.dump(obj, f, ensure_ascii=False, indent=4) of a time series: the
\* text written, as a sequence of tokens.
RECURSIVE DumpRows(_, _)
DumpRows(rows, i) ==
    IF i > Len(rows) THEN <<>>
    ELSE <<rows[i][1], ": ", rows[i][2]>>
         \o (IF i < Len(rows) THEN <<",">> ELSE <<>>)
         \o DumpRows(rows, i + 1)

Dump(rows) == <<"{">> \o DumpRows(rows, 1) \o <<"}">>

\* Content of a file an earlier run left behind.
OldContent == <<"{", "2025-01-01", ": ", "99.0", "}">>

\* ------------------------------------------------------------- file names
file_name(symbol) == symbol \o ".json"

output_path_bare(symbol) == file_name(symbol)

\* Line 97: os.path.join(OUTPUT_DIR, file_name).
output_path(symbol) == OUTPUT_DIR \o "/" \o file_name(symbol)

Paths == {output_path(SYMBOLS[i]) : i \in 1..total_symbols}

\* ------------------------------------------------------------------ state
VARIABLES
    pc,                 \* position in fetch_and_save_stock_data
    dirExists,          \* os.path.exists(OUTPUT_DIR)
    dirAtStart,         \* dirExists when the run began
    mkdirs,             \* number of os.makedirs calls
    files,              \* the files under OUTPUT_DIR: path -> text
    idx,                \* position of the loop in SYMBOLS (0 before it)
    response,           \* what the current symbol's request returned
    symbols_processed,  \* the success counter
    requests,           \* symbols requested so far, in order
    opened,             \* paths opened for writing in this run
    written,            \* paths whose write completed in this run
    sleeps,             \* number of time.sleep calls
    sleptSince,         \* time.sleep calls since the last request
    lastLog,            \* the last message printed for the current symbol
    summary             \* the final summary <<successes, total>>, or <<>>

vars == <<pc, dirExists, dirAtStart, mkdirs, files, idx, response,
          symbols_processed, requests, opened, written, sleeps, sleptSince,
          lastLog, summary>>

symbol == SYMBOLS[idx]

data == response.data

\* Files an earlier run may have left: any subset of the symbols' files.
InitFiles == {[p \in S |-> OldContent] : S \in SUBSET Paths}

Init ==
    /\ pc = "start"
    /\ dirExists \in BOOLEAN
    /\ dirAtStart = dirExists
    /\ files \in (IF dirExists THEN InitFiles ELSE {EmptyDict})
    /\ mkdirs = 0
    /\ idx = 0
    /\ response = NoResponse
    /\ symbols_processed = 0
    /\ requests = <<>>
    /\ opened = {}
    /\ written = {}
    /\ sleeps = 0
    /\ sleptSince = 0
    /\ lastLog = "none"
    /\ summary = <<>>

\* ---------------------------------------------------------------- helpers
AfterTry_returns == "returned"

\* Where control goes after an except handler or after the try block ends
\* normally: the sleep test of line 118.
AfterTry == "after_try"

\* Where `continue` goes: the head of the for loop.
Continue == "loop"

\* Where the `return` of line 42 goes: out of the function.
Return_falls_through == "loop"

Return == "returned"

\* Line 123: the figures of the summary.
SummaryLine_position == <<idx, total_symbols>>

SummaryLine == <<symbols_processed, total_symbols>>

\* Line 118: whether to sleep after this symbol.
SleepNeeded == symbols_processed < total_symbols

WriteFile_fresh(path, text) == (path :> text)

\* Lines 101-102: open(path, 'w') and the write replace one file's text.
WriteFile(path, text) ==
    [p \in DOMAIN files \cup {path} |-> IF p = path THEN text ELSE files[p]]

Env == <<dirExists, dirAtStart, mkdirs>>

Counters == <<sleeps, sleptSince>>

\* ---------------------------------------------------------------- actions
\* Line 36: the directory exists, nothing is created.
DirPresent ==
    /\ pc = "start"
    /\ dirExists
    /\ pc' = Continue
    /\ UNCHANGED <<Env, files, idx, response, symbols_processed, requests,
                   opened, written, Counters, lastLog, summary>>

\* Lines 37-39: os.makedirs succeeds.
MakeDirs ==
    /\ pc = "start"
    /\ ~dirExists
    /\ mkdirs' = mkdirs + 1
    /\ dirExists' = TRUE
    /\ pc' = Continue
    /\ UNCHANGED <<dirAtStart, files, idx, response, symbols_processed,
                   requests, opened, written, Counters, lastLog, summary>>

\* Lines 40-42: os.makedirs raises OSError, the function returns.
MakeDirsFails ==
    /\ pc = "start"
    /\ ~dirExists
    /\ mkdirs' = mkdirs + 1
    /\ pc' = Return
    /\ UNCHANGED <<dirExists, dirAtStart, files, idx, response,
                   symbols_processed, requests, opened, written, Counters,
                   lastLog, summary>>

\* Lines 51-68: the next symbol of the registry is requested.
Request ==
    /\ pc = "loop"
    /\ idx < total_symbols
    /\ idx' = idx + 1
    /\ requests' = Append(requests, SYMBOLS[idx + 1])
    /\ \E r \in Responses : response' = r
    /\ sleptSince' = 0
    /\ lastLog' = "processing"
    /\ pc' = "try"
    /\ UNCHANGED <<Env, files, symbols_processed, opened, written, sleeps,
                   summary>>

\* Lines 65-66, 109-110: the request fails.
RequestFailed ==
    /\ pc = "try"
    /\ response.kind \in {"transport_error", "http_error"}
    /\ lastLog' = "request_failed"
    /\ pc' = AfterTry
    /\ UNCHANGED <<Env, files, idx, response, symbols_processed, requests,
                   opened, written, Counters, summary>>

\* Lines 68, 111-113: the body is not JSON.
JsonFailed ==
    /\ pc = "try"
    /\ response.kind = "not_json"
    /\ lastLog' = "json_failed"
    /\ pc' = AfterTry
    /\ UNCHANGED <<Env, files, idx, response, symbols_processed, requests,
                   opened, written, Counters, summary>>

\* Lines 71, 114-115: `"Error Message" in None` raises TypeError.
UnknownError ==
    /\ pc = "try"
    /\ response.kind = "json_null"
    /\ lastLog' = "unknown_error"
    /\ pc' = AfterTry
    /\ UNCHANGED <<Env, files, idx, response, symbols_processed, requests,
                   opened, written, Counters, summary>>

Parsed == response.kind \in {"json", "json_text"}

HasErrorMessage_unless_series ==
    "Error Message" \in DOMAIN data /\ time_series_key \notin DOMAIN data

\* Line 71.
HasErrorMessage == "Error Message" \in DOMAIN data

HasRateLimitNote_any_limit ==
    "Note" \in DOMAIN data /\ Mentions("rate limit", data["Note"])

\* Line 74.
HasRateLimitNote ==
    "Note" \in DOMAIN data /\ Mentions("API call frequency", data["Note"])

HasInformation_unless_series ==
    "Information" \in DOMAIN data /\ time_series_key \notin DOMAIN data

\* Line 81.
HasInformation == "Information" \in DOMAIN data

\* Lines 71-73.
ErrorMessage ==
    /\ pc = "try"
    /\ Parsed
    /\ HasErrorMessage
    /\ lastLog' = "error_message"
    /\ pc' = Continue
    /\ UNCHANGED <<Env, files, idx, response, symbols_processed, requests,
                   opened, written, Counters, summary>>

\* Lines 74-80.
RateLimitNote ==
    /\ pc = "try"
    /\ Parsed
    /\ ~HasErrorMessage
    /\ HasRateLimitNote
    /\ lastLog' = "rate_limit"
    /\ pc' = Continue
    /\ UNCHANGED <<Env, files, idx, response, symbols_processed, requests,
                   opened, written, Counters, summary>>

\* Lines 81-83.
Information ==
    /\ pc = "try"
    /\ Parsed
    /\ ~HasErrorMessage
    /\ ~HasRateLimitNote
    /\ HasInformation
    /\ lastLog' = "information"
    /\ pc' = Continue
    /\ UNCHANGED <<Env, files, idx, response, symbols_processed, requests,
                   opened, written, Counters, summary>>

Classified ==
    /\ pc = "try"
    /\ Parsed
    /\ ~HasErrorMessage
    /\ ~HasRateLimitNote
    /\ ~HasInformation

\* Lines 86-90.
MissingKey ==
    /\ Classified
    /\ time_series_key \notin DOMAIN data
    /\ lastLog' = "missing_key"
    /\ pc' = Continue
    /\ UNCHANGED <<Env, files, idx, response, symbols_processed, requests,
                   opened, written, Counters, summary>>

\* Line 92.
time_series_data == data[time_series_key]

\* Lines 92-104: the file is written and the counter incremented.
Save ==
    /\ Classified
    /\ time_series_key \in DOMAIN data
    /\ opened' = opened \cup {output_path(symbol)}
    /\ files' = WriteFile(output_path(symbol), Dump(time_series_data))
    /\ written' = written \cup {output_path(symbol)}
    /\ symbols_processed' = symbols_processed + 1
    /\ lastLog' = "saved"
    /\ pc' = AfterTry
    /\ UNCHANGED <<Env, idx, response, requests, Counters, summary>>

\* Lines 101, 106-107: open() raises IOError, the file is left as it was.
OpenFails ==
    /\ Classified
    /\ time_series_key \in DOMAIN data
    /\ lastLog' = "write_failed"
    /\ pc' = AfterTry
    /\ UNCHANGED <<Env, files, idx, response, symbols_processed, requests,
                   opened, written, Counters, summary>>

\* Lines 101-102, 106-107: open(path, 'w') truncated the file, then json.dump
\* or the close raises IOError. json.dump writes into the file object's
\* buffer, which a text of at most MaxRows rows never fills, so nothing has
\* reached the disk when the flush fails: the file is left empty.
DumpFails ==
    /\ Classified
    /\ time_series_key \in DOMAIN data
    /\ opened' = opened \cup {output_path(symbol)}
    /\ files' = WriteFile(output_path(symbol), <<>>)
    /\ lastLog' = "write_failed"
    /\ pc' = AfterTry
    /\ UNCHANGED <<Env, idx, response, symbols_processed, requests, written,
                   Counters, summary>>

\* Lines 118-120: the sleep.
Sleep ==
    /\ pc = AfterTry
    /\ SleepNeeded
    /\ sleeps' = sleeps + 1
    /\ sleptSince' = sleptSince + 1
    /\ pc' = "loop"
    /\ UNCHANGED <<Env, files, idx, response, symbols_processed, requests,
                   opened, written, lastLog, summary>>

\* Line 118, condition false.
NoSleep ==
    /\ pc = AfterTry
    /\ ~SleepNeeded
    /\ pc' = "loop"
    /\ UNCHANGED <<Env, files, idx, response, symbols_processed, requests,
                   opened, written, Counters, lastLog, summary>>

\* Line 123: the loop is over, the summary is printed.
Summary ==
    /\ pc = "loop"
    /\ idx = total_symbols
    /\ summary' = SummaryLine
    /\ pc' = "done"
    /\ UNCHANGED <<Env, files, idx, response, symbols_processed, requests,
                   opened, written, Counters, lastLog>>

Next ==
    \/ DirPresent
    \/ MakeDirs
    \/ MakeDirsFails
    \/ Request
    \/ RequestFailed
    \/ JsonFailed
    \/ UnknownError
    \/ ErrorMessage
    \/ RateLimitNote
    \/ Information
    \/ MissingKey
    \/ Save
    \/ OpenFails
    \/ DumpFails
    \/ Sleep
    \/ NoSleep
    \/ Summary

Spec == Init /\ [][Next]_vars

TypeOK ==
    /\ idx \in 0..total_symbols
    /\ symbols_processed \in 0..total_symbols
    /\ DOMAIN files \subseteq Paths

\* ----------------------------------------------------------------- claims
\* The documented file of each ticker, written out: the naming convention
\* readers of the files rely on.
DocumentedPath(s) ==
    CASE s = "SPY" -> "data/stock/SPY.json"
      [] s = "QQQ" -> "data/stock/QQQ.json"
      [] s = "EXS1.DE" -> "data/stock/EXS1.DE.json"
      [] s = "ASHR" -> "data/stock/ASHR.json"
      [] s = "EWJ" -> "data/stock/EWJ.json"

DocumentedPaths == {DocumentedPath(SYMBOLS[i]) : i \in 1..total_symbols}

\* json.load of a file's text: the rows of the object it holds.
RECURSIVE LoadRows(_, _)
LoadRows(text, i) ==
    IF text[i] = "}" THEN <<>>
    ELSE <<<<text[i], text[i + 2]>>>>
         \o LoadRows(text, IF text[i + 3] = "," THEN i + 4 ELSE i + 3)

Load(text) == LoadRows(text, 2)

IsObject == response.kind = "json"

\* The response passes classification: the persist step is reached.
ReachesPersist ==
    /\ IsObject
    /\ "Error Message" \notin DOMAIN response.data
    /\ ~("Note" \in DOMAIN response.data
         /\ Mentions("API call frequency", response.data["Note"]))
    /\ "Information" \notin DOMAIN response.data
    /\ "Time Series (Daily)" \in DOMAIN response.data

\* The iteration of the current symbol is over.
IterationOver == idx > 0 /\ pc \in {"after_try", "loop", "done"}

\* C1: after any symbol but the last has been processed, whatever its
\* outcome, time.sleep has been called once when the next request is due.
C1_SleepBetweenRequests ==
    (pc = "loop" /\ 0 < idx /\ idx < total_symbols) => sleptSince = 1

\* C2: a complete run sleeps exactly N-1 times for N symbols, whatever the
\* outcomes (so never after the last symbol).
C2_SleepsNMinusOne ==
    pc = "done" => sleeps = total_symbols - 1

\* C3: a failure of one symbol never ends the loop: once the directory is
\* there, the symbols requested so far are the first idx of the registry,
\* each once and in order, the run is never aborted or stuck, and it ends
\* with all symbols requested and the summary printed.
C3_FailuresConfined ==
    /\ pc \in {"loop", "try", "after_try", "done"} =>
         requests = SubSeq(SYMBOLS, 1, idx)
    /\ pc = "returned" => ~dirExists
    /\ pc \notin {"done", "returned"} => ENABLED Next
    /\ pc = "done" =>
         /\ requests = SYMBOLS
         /\ summary # <<>>

C3_Witness ==
    /\ pc = "done"
    /\ lastLog \in {"request_failed", "json_failed", "unknown_error",
                    "write_failed"}
    /\ symbols_processed = 0

\* C4: after a symbol's response passed classification and its write
\* succeeded, the file data/stock/<symbol>.json holds exactly the value
\* under 'Time Series (Daily)' of that response.
C4_FileHoldsSeries ==
    lastLog = "saved" =>
        /\ ReachesPersist
        /\ DocumentedPath(symbol) \in DOMAIN files
        /\ Load(files[DocumentedPath(symbol)])
             = response.data["Time Series (Daily)"]

C4_Witness ==
    /\ lastLog = "saved"
    /\ symbol = "EXS1.DE"
    /\ "Note" \in DOMAIN response.data
    /\ Len(response.data["Time Series (Daily)"]) = MaxRows
    /\ "data/stock/SPY.json" \in DOMAIN files
    /\ files["data/stock/SPY.json"] # files["data/stock/EXS1.DE.json"]

\* C5: a response with the key 'Error Message' (with or without a time
\* series) ends the iteration with no file opened or written and the
\* success counter as it was.
C5_ErrorMessageSkips ==
    [][(pc = "try" /\ IsObject /\ "Error Message" \in DOMAIN response.data) =>
          /\ pc' = "loop"
          /\ lastLog' = "error_message"
          /\ files' = files
          /\ opened' = opened
          /\ written' = written
          /\ symbols_processed' = symbols_processed]_vars

C5_Witness ==
    /\ lastLog = "error_message"
    /\ pc = "loop"
    /\ "Time Series (Daily)" \in DOMAIN response.data
    /\ DocumentedPath(symbol) \notin opened
    /\ symbols_processed > 0

NoRepeat(seq) ==
    \A i, j \in DOMAIN seq : i # j => seq[i] # seq[j]

\* C6: a response with a 'Note' mentioning API call frequency ends the
\* iteration with no file opened or written and the counter as it was, and
\* no symbol is ever requested twice in a run.
C6_RateLimitSkips ==
    [][/\ requests' # requests => NoRepeat(requests')
       /\ (pc = "try" /\ IsObject /\ "Note" \in DOMAIN response.data
             /\ Mentions("API call frequency", response.data["Note"])) =>
            /\ pc' = "loop"
            /\ requests' = requests
            /\ files' = files
            /\ opened' = opened
            /\ written' = written
            /\ symbols_processed' = symbols_processed]_vars

C6_Witness ==
    /\ lastLog = "rate_limit"
    /\ pc = "loop"
    /\ "Time Series (Daily)" \in DOMAIN response.data
    /\ idx = total_symbols
    /\ DocumentedPath(symbol) \notin opened

\* C7: when the directory is missing and cannot be created the function
\* returns with no request, no file, no sleep and no summary; when the
\* directory exists at the start no creation is attempted and the run is
\* not aborted.
C7_DirectoryFailureAborts ==
    /\ pc = "returned" =>
         /\ ~dirAtStart
         /\ mkdirs = 1
         /\ requests = <<>>
         /\ opened = {}
         /\ DOMAIN files = {}
         /\ sleeps = 0
         /\ summary = <<>>
    /\ (pc # "start" /\ ~dirExists) => pc = "returned"
    /\ dirAtStart => (mkdirs = 0 /\ pc # "returned")
    /\ mkdirs <= 1

C7_Witness == pc = "returned" /\ mkdirs = 1

\* C8: the success counter is the number of files whose write completed in
\* this run, at most the number of symbols processed and at most N; the
\* summary reports it out of N, and N/N exactly when all N files
\* data/stock/<symbol>.json were written.
C8_CounterCountsWrites ==
    /\ symbols_processed = Cardinality(written)
    /\ symbols_processed <= idx
    /\ symbols_processed <= total_symbols
    /\ written \subseteq DOMAIN files
    /\ pc = "done" =>
         /\ summary = <<Cardinality(written), Len(SYMBOLS)>>
         /\ (summary[1] = summary[2]) <=> (written = DocumentedPaths)

C8_Witness ==
    /\ pc = "done"
    /\ summary = <<5, 5>>
    /\ DocumentedPaths \subseteq DOMAIN files

\* The outcome the documented priority order gives a parsed object.
Documented(d) ==
    IF "Error Message" \in DOMAIN d THEN {"error_message"}
    ELSE IF "Note" \in DOMAIN d /\ Mentions("API call frequency", d["Note"])
    THEN {"rate_limit"}
    ELSE IF "Information" \in DOMAIN d THEN {"information"}
    ELSE IF "Time Series (Daily)" \in DOMAIN d THEN {"saved", "write_failed"}
    ELSE {"missing_key"}

\* C9: a parsed object is classified in the order 'Error Message', 'Note'
\* mentioning API call frequency, 'Information', 'Time Series (Daily)',
\* else missing key; only the fourth case opens the file.
C9_ClassificationPriority ==
    (IterationOver /\ IsObject) =>
        /\ lastLog \in Documented(response.data)
        /\ (DocumentedPath(symbol) \in opened) => ReachesPersist

C9_Witness ==
    /\ IterationOver
    /\ lastLog = "saved"
    /\ "Note" \in DOMAIN response.data
    /\ ~Mentions("API call frequency", response.data["Note"])

\* C10: only a step of a symbol whose response reached the persist step
\* opens or changes a file, and then only data/stock/<symbol>.json: every
\* other file, and every file of a skipped symbol, keeps its content.
C10_OnlyOwnFileTouched ==
    [][(files' # files \/ opened' # opened) =>
          /\ pc = "try"
          /\ ReachesPersist
          /\ opened' \subseteq opened \cup {DocumentedPath(symbol)}
          /\ DOMAIN files' \subseteq DOMAIN files \cup {DocumentedPath(symbol)}
          /\ \A p \in DOMAIN files :
               p # DocumentedPath(symbol) =>
                 (p \in DOMAIN files' /\ files'[p] = files[p])]_vars

C10_Witness ==
    /\ pc = "done"
    /\ lastLog = "missing_key"
    /\ symbols_processed = 2
    /\ {"data/stock/EWJ.json", "data/stock/ASHR.json"} \subseteq DOMAIN files
    /\ files["data/stock/EWJ.json"] = OldContent
    /\ files["data/stock/ASHR.json"] = OldContent
    /\ "data/stock/QQQ.json" \in written

====
